---- MODULE Spec2Model ----
(***************************************************************************)
(* State-machine model of src/app.py: the bounded paginated search         *)
(* aggregator search_youtube_api (lines 30-83) and the search_button       *)
(* handler that calls it (lines 128-145).                                  *)
(*                                                                         *)
(* The YouTube client (googleapiclient) is the environment.  It is a stub  *)
(* with a fixed script of pages, chosen at start-up: fetch number j is     *)
(* answered by page j of the script; a script whose last page still hands  *)
(* out a continuation token answers every later fetch with an empty page   *)
(* carrying that same token.                                               *)
(***************************************************************************)
EXTENDS Integers, Sequences, FiniteSets, TLC

VARIABLES
    script,            \* the stub client's pages (environment, fixed per run)
    pc,                \* control position of the handler / aggregator
    via,               \* "ui": called by the search_button handler; "call": called directly
    max_results,       \* parameter max_results of search_youtube_api
    start_time,        \* local start_time (line 38)
    end_time,          \* local end_time (line 39)
    video_data,        \* local video_data (line 34)
    next_page_token,   \* local next_page_token (line 35)
    results_per_page,  \* local results_per_page (line 45)
    response,          \* local response (line 58): the page being normalized
    requests,          \* the client's log of the requests issued (first MaxLog of them)
    videos,            \* what search_youtube_api handed to its caller
    st_message,        \* what the app displays (st.warning / st.error / st.info / traceback)
    search_results,    \* st.session_state.search_results
    prev               \* what the previous call of the same query produced, if any

vars == <<script, pc, via, max_results, start_time, end_time, video_data,
          next_page_token, results_per_page, response, requests, videos,
          st_message, search_results, prev>>

----------------------------------------------------------------------------
(* Bounds of the model *)

\* longest script of pages the stub client is configured with
MaxPages == 2
\* result caps tried are k * 50 + r, k in 0..MaxFull, r in CapOffsets
MaxFull == 2

(* Program constants *)

\* min(50, ...) at line 45: the platform's page size limit
PlatformMax == 50
\* st.slider("...", 1, 1000, 50) at line 119
SliderMin == 1
SliderMax == 1000
\* e.resp.status == 400 at line 76
BadRequestStatus == 400

----------------------------------------------------------------------------
(* Values *)

\* Python's None, as a token value distinct from every text
None == "<None>"
\* a slip: only None is taken for "no token" (is None instead of not)
FalsyNoneOnly(t) == t = None
\* Python truthiness of an optional text: None and "" are falsy
Falsy(t) == t = None \/ t = ""

Min(a, b) == IF a < b THEN a ELSE b

CapOffsets == {0, 1}
Caps == {k * PlatformMax + r : k \in 0..MaxFull, r \in CapOffsets}
Days == {1, 2}
Keywords == {"", "test"}
\* numbers of items a page of the stub client may hold: none, one, a full
\* platform page, and one more than any request may ask for
ItemCounts == {0, 1, PlatformMax, PlatformMax + 1}
\* HTTP statuses the stub client fails with: bad request / invalid key, quota
Statuses == {BadRequestStatus, 403}
RequiredFields == {"publishedAt", "title", "channelTitle", "videoId"}

\* the requests log keeps the first MaxLog requests
MaxLog == MaxPages + 2

----------------------------------------------------------------------------
(* The stub client *)

\* continuation token handed out by page k (two texts, alternating, so that
\* consecutive pages never hand out the same token)
TokenAt(k) == IF k % 2 = 1 THEN "abc" ELSE "def"

OkPage(n, tok) ==
    [kind |-> "ok", n |-> n, bad |-> 0, field |-> "", token |-> tok, status |-> 200]
\* a page of n items whose item number bad lacks the required field
BadPage(n, bad, field) ==
    [kind |-> "ok", n |-> n, bad |-> bad, field |-> field, token |-> None, status |-> 200]
ErrorPage(status) ==
    [kind |-> "error", n |-> 0, bad |-> 0, field |-> "", token |-> None, status |-> status]

\* the last page of a script: the end of the results (no token, or an empty
\* token), a token that leads nowhere, a malformed item, or an HTTP error
LastPages(k) ==
    {OkPage(n, t) : n \in ItemCounts, t \in {None, "", TokenAt(k)}}
    \cup {BadPage(2, b, f) : b \in 1..2, f \in RequiredFields}
    \cup {ErrorPage(s) : s \in Statuses}

Scripts ==
    UNION {
        {[k \in 1..len |-> IF k < len THEN OkPage(m[k], TokenAt(k)) ELSE l] :
            m \in [1..(len - 1) -> ItemCounts], l \in LastPages(len)}
        : len \in 1..MaxPages}

\* the page that answers fetch number j
EmptyTail(s) == OkPage(0, s[Len(s)].token)
ClientPage(s, j) == IF j <= Len(s) THEN s[j] ELSE EmptyTail(s)

\* item i of page k as the API returns it: item['snippet'][...], item['id']['videoId'];
\* publishedAt is a timestamp, <<day, second of the day>>
RawItem(k, i, p) ==
    [videoId |-> k * 100 + i,
     publishedAt |-> <<1 + ((k + i) % 2), i>>,
     title |-> k * 100 + i,
     channelTitle |-> k,
     missing |-> IF p.bad = i THEN {p.field} ELSE {}]

Items(s, j) ==
    LET p == ClientPage(s, j) IN [i \in 1..p.n |-> RawItem(Min(j, Len(s) + 1), i, p)]

----------------------------------------------------------------------------
(* search_youtube_api, piece by piece *)

\* datetime.combine(start_date, time.min).isoformat() + 'Z'
StartTime(d) == <<d, "00:00:00", "Z">>
\* datetime.combine(end_date, time.max).isoformat() + 'Z'
EndTime(d) == <<d, "23:59:59.999999", "Z">>

\* a slip: the test lets one more round in
LoopConditionInclusive(len, max) == len <= max

\* while len(video_data) < max_results
LoopCondition(len, max) == len < max

\* a slip: the page size without the min against what is still needed
PageSizeAlwaysMax(len, max) == PlatformMax

\* a slip: what was already fetched is not subtracted
PageSizeIgnoresFetched(len, max) == Min(PlatformMax, max)
\* a slip: the platform limit is not applied
PageSizeRemainderOnly(len, max) == max - len

\* results_per_page = min(50, max_results - len(video_data))
PageSize(len, max) == Min(PlatformMax, max - len)

\* a slip: the continuation token is not passed on
RequestWithoutToken(size, after, before, tok) ==
    [maxResults |-> size, publishedAfter |-> after, publishedBefore |-> before,
     pageToken |-> None]

\* youtube.search().list(..., maxResults=, publishedAfter=, publishedBefore=, pageToken=)
Request(size, after, before, tok) ==
    [maxResults |-> size, publishedAfter |-> after, publishedBefore |-> before,
     pageToken |-> tok]

\* datetime.strptime(publishedAt, "%Y-%m-%dT%H:%M:%SZ").date(): the day alone
DateOf(ts) == ts[1]
\* f"https://www.youtube.com/watch?v={videoId}"
UrlOf(id) == <<"https://www.youtube.com/watch?v=", id>>

\* the dict appended per item (keys 發布日期, 標題, 作者, 網址)
Normalize(item) ==
    [published_date |-> DateOf(item.publishedAt),
     title |-> item.title,
     author |-> item.channelTitle,
     url |-> UrlOf(item.videoId)]

\* an item whose subscripting raises KeyError
Malformed(item) == item.missing # {}

\* a slip: each page's records put in front of the earlier ones
AppendItemsInFront(data, items, n) ==
    [i \in 1..n |-> Normalize(items[i])] \o data

\* the for loop over response['items']: the records appended after n items
AppendItems(data, items, n) ==
    data \o [i \in 1..n |-> Normalize(items[i])]

\* a slip: nothing accumulated yet also ends the loop
ShouldBreakOnNothing(tok, len, max) == Falsy(tok) \/ len >= max \/ len = 0
\* a slip: the token is not looked at
ShouldBreakCapOnly(tok, len, max) == len >= max

\* a slip: the break is never taken
ShouldBreakNever(tok, len, max) == FALSE

\* if not next_page_token or len(video_data) >= max_results: break
ShouldBreak(tok, len, max) == Falsy(tok) \/ len >= max

\* a slip: the slice left out
TruncateNothing(data, max) == data

\* return video_data[:max_results]   (max_results >= 0)
Truncate(data, max) == SubSeq(data, 1, Min(max, Len(data)))

Pending == [kind |-> "pending", data |-> <<>>]
Raised == [kind |-> "raised", data |-> <<>>]
ListResult(data) == [kind |-> "list", data |-> data]
\* a slip: the records of the earlier pages returned from the except branch
HttpErrorPartial(data) == ListResult(data)
\* return None in the except HttpError branch
HttpErrorResult(data) == [kind |-> "None", data |-> <<>>]

\* the st.error shown by the except HttpError branch
HttpErrorMessage(status) ==
    IF status = BadRequestStatus THEN "error: invalid API key" ELSE "error: API call failed"

----------------------------------------------------------------------------
(* the search_button handler, after the call *)

\* df['發布日期'].astype(str): the date rendered as text
DateStr(d) == <<"date", d>>
\* pd.DataFrame(videos) with the date column as text, index reset
DataFrame(data) ==
    [i \in 1..Len(data) |-> [data[i] EXCEPT !.published_date = DateStr(@)]]

\* st.session_state.search_results after the handler has looked at videos
SessionAfter(v) == IF v.kind = "list" /\ v.data # <<>> THEN DataFrame(v.data) ELSE <<>>

\* the handler's st.info for an empty list; the aggregator's own message otherwise
MessageAfter(v, msg) == IF v.kind = "list" /\ v.data = <<>> THEN "info: no videos found" ELSE msg

\* the caller's side of a return: the handler stores, a direct caller does not
Handle(how, v, old) == IF how = "ui" THEN SessionAfter(v) ELSE old
Shown(how, v, msg) == IF how = "ui" THEN MessageAfter(v, msg) ELSE msg

----------------------------------------------------------------------------
\* what a finished call left for its caller and in the client's log
Outcome(v, reqs, msg, shown) ==
    [set |-> TRUE, videos |-> v, requests |-> reqs, st_message |-> msg,
     search_results |-> shown]
NoPrev ==
    [set |-> FALSE, videos |-> Pending, requests |-> <<>>, st_message |-> "none",
     search_results |-> <<>>]

Init ==
    /\ script \in Scripts
    /\ pc = "idle"
    /\ via = "none"
    /\ max_results = 0
    /\ start_time = None
    /\ end_time = None
    /\ video_data = <<>>
    /\ next_page_token = None
    /\ results_per_page = 0
    /\ response = ErrorPage(0)
    /\ requests = <<>>
    /\ videos = Pending
    /\ st_message = "none"
    /\ search_results = <<>>
    /\ prev = NoPrev

\* a slip: the accumulator outlives the call (a module-level list, a mutable default)
EnterKeepsData(how, sd, ed, max) ==
    /\ via' = how
    /\ max_results' = max
    /\ next_page_token' = None
    /\ start_time' = StartTime(sd)
    /\ end_time' = EndTime(ed)
    /\ pc' = "loop"
    /\ UNCHANGED <<prev, script, video_data, results_per_page, response, requests, videos,
                   st_message, search_results>>

\* lines 34-41: the locals of a call
Enter(how, sd, ed, max) ==
    /\ via' = how
    /\ max_results' = max
    /\ video_data' = <<>>
    /\ next_page_token' = None
    /\ start_time' = StartTime(sd)
    /\ end_time' = EndTime(ed)
    /\ pc' = "loop"
    /\ UNCHANGED <<prev, script, results_per_page, response, requests, videos, st_message,
                   search_results>>

\* a slip: the comparison the wrong way round
DatesInvertedSwapped(sd, ed) == sd < ed

\* start_date > end_date
DatesInverted(sd, ed) == sd > ed

\* if search_button: the keyword is missing
SearchButtonNoKeyword ==
    /\ pc = "idle"
    /\ \E kw \in Keywords, sd \in Days, ed \in Days :
        /\ kw = ""
        /\ st_message' = "warning: keyword required"
        /\ pc' = "rejected"
    /\ UNCHANGED <<prev, script, via, max_results, start_time, end_time, video_data,
                   next_page_token, results_per_page, response, requests, videos,
                   search_results>>

\* elif start_date > end_date
SearchButtonBadDates ==
    /\ pc = "idle"
    /\ \E kw \in Keywords, sd \in Days, ed \in Days :
        /\ kw # ""
        /\ DatesInverted(sd, ed)
        /\ st_message' = "error: start date after end date"
        /\ pc' = "rejected"
    /\ UNCHANGED <<prev, script, via, max_results, start_time, end_time, video_data,
                   next_page_token, results_per_page, response, requests, videos,
                   search_results>>

\* else: search_youtube_api(API_KEY, keyword, start_date, end_date, max_results=search_limit)
SearchButton ==
    /\ pc = "idle"
    /\ \E kw \in Keywords, sd \in Days, ed \in Days,
          search_limit \in Caps \cap (SliderMin..SliderMax) :
        /\ kw # ""
        /\ ~DatesInverted(sd, ed)
        /\ Enter("ui", sd, ed, search_limit)

\* search_youtube_api called by another caller, any cap
Call ==
    /\ pc = "idle"
    /\ \E sd \in Days, ed \in Days, max \in Caps : Enter("call", sd, ed, max)

\* the loop test holds: lines 45-56, the request is built
LoopEnter ==
    /\ pc = "loop"
    /\ LoopCondition(Len(video_data), max_results)
    /\ results_per_page' = PageSize(Len(video_data), max_results)
    /\ requests' = IF Len(requests) < MaxLog
                   THEN Append(requests, Request(results_per_page', start_time, end_time,
                                                 next_page_token))
                   ELSE requests
    /\ pc' = "execute"
    /\ UNCHANGED <<prev, script, via, max_results, start_time, end_time, video_data,
                   next_page_token, response, videos, st_message, search_results>>

\* the loop test fails: on to the return
LoopExit ==
    /\ pc = "loop"
    /\ ~LoopCondition(Len(video_data), max_results)
    /\ pc' = "return"
    /\ UNCHANGED <<prev, script, via, max_results, start_time, end_time, video_data,
                   next_page_token, results_per_page, response, requests, videos,
                   st_message, search_results>>

\* number of the fetch being answered (the log stops growing at MaxLog, and
\* every fetch past the script is answered by the same empty page)
Fetches == Len(requests)

\* response = request.execute() succeeds
ExecuteOk ==
    /\ pc = "execute"
    /\ ClientPage(script, Fetches).kind = "ok"
    /\ response' = ClientPage(script, Fetches)
    /\ pc' = "normalize"
    /\ UNCHANGED <<prev, script, via, max_results, start_time, end_time, video_data,
                   next_page_token, results_per_page, requests, videos, st_message,
                   search_results>>

\* a slip: the HttpError is swallowed and the loop goes on
ExecuteHttpErrorRetry ==
    /\ pc = "execute"
    /\ ClientPage(script, Fetches).kind = "error"
    /\ st_message' = HttpErrorMessage(ClientPage(script, Fetches).status)
    /\ pc' = "loop"
    /\ UNCHANGED <<prev, script, via, max_results, start_time, end_time, video_data,
                   next_page_token, results_per_page, response, requests, videos,
                   search_results>>

\* request.execute() raises HttpError: lines 74-81, then lines 137-138
ExecuteHttpError ==
    /\ pc = "execute"
    /\ ClientPage(script, Fetches).kind = "error"
    /\ st_message' = HttpErrorMessage(ClientPage(script, Fetches).status)
    /\ videos' = HttpErrorResult(video_data)
    /\ search_results' = Handle(via, videos', search_results)
    /\ pc' = "failed"
    /\ UNCHANGED <<prev, script, via, max_results, start_time, end_time, video_data,
                   next_page_token, results_per_page, response, requests>>

\* position of the first malformed item of the page, 0 when there is none
FirstBad(items) ==
    IF \E i \in 1..Len(items) : Malformed(items[i])
    THEN CHOOSE i \in 1..Len(items) :
            Malformed(items[i]) /\ \A j \in 1..(i - 1) : ~Malformed(items[j])
    ELSE 0

\* lines 60-72: every item is appended, the token is read, the break is decided
NormalizePage ==
    /\ pc = "normalize"
    /\ LET items == Items(script, Fetches) IN
        /\ FirstBad(items) = 0
        /\ video_data' = AppendItems(video_data, items, Len(items))
        /\ next_page_token' = response.token
        /\ pc' = IF ShouldBreak(next_page_token', Len(video_data'), max_results)
                 THEN "return" ELSE "loop"
    /\ UNCHANGED <<prev, script, via, max_results, start_time, end_time, results_per_page,
                   response, requests, videos, st_message, search_results>>

\* lines 60-66: an item lacks a key; KeyError is not an HttpError and leaves
\* search_youtube_api and the handler uncaught
NormalizeKeyError ==
    /\ pc = "normalize"
    /\ LET items == Items(script, Fetches) IN
        /\ FirstBad(items) # 0
        /\ video_data' = AppendItems(video_data, items, FirstBad(items) - 1)
    /\ videos' = Raised
    /\ st_message' = "traceback: KeyError"
    /\ pc' = "failed"
    /\ UNCHANGED <<prev, script, via, max_results, start_time, end_time, next_page_token,
                   results_per_page, response, requests, search_results>>

\* line 83, then lines 139-145
Return ==
    /\ pc = "return"
    /\ videos' = ListResult(Truncate(video_data, max_results))
    /\ search_results' = Handle(via, videos', search_results)
    /\ st_message' = Shown(via, videos', st_message)
    /\ pc' = "done"
    /\ UNCHANGED <<prev, script, via, max_results, start_time, end_time, video_data,
                   next_page_token, results_per_page, response, requests>>

Next ==
    \/ SearchButtonNoKeyword
    \/ SearchButtonBadDates
    \/ SearchButton
    \/ Call
    \/ LoopEnter
    \/ LoopExit
    \/ ExecuteOk
    \/ ExecuteHttpError
    \/ NormalizePage
    \/ NormalizeKeyError
    \/ Return

Spec == Init /\ [][Next]_vars

\* the same search is run once more against the same client: the script
\* reruns, the client's log starts afresh, the session state stays
SearchAgain ==
    /\ pc \in {"done", "failed"}
    /\ ~prev.set
    /\ prev' = Outcome(videos, requests, st_message, search_results)
    /\ requests' = <<>>
    /\ videos' = Pending
    /\ st_message' = "none"
    /\ pc' = "again"
    /\ UNCHANGED <<script, via, max_results, start_time, end_time, video_data,
                   next_page_token, results_per_page, response, search_results>>

\* the second call, with the arguments of the first
ReEnter ==
    /\ pc = "again"
    /\ Enter(via, start_time[1], end_time[1], max_results)

NextAgain ==
    \/ Next
    \/ SearchAgain
    \/ ReEnter

SpecAgain == Init /\ [][NextAgain]_vars

\* the handler runs to its end: a step that can be taken is taken
FairSpec == Spec /\ WF_vars(Next)

----------------------------------------------------------------------------
(* What the stub client holds, read off its script *)

RECURSIVE ItemsUpTo(_, _)
\* number of items on pages 1..k of script s
ItemsUpTo(s, k) == IF k = 0 THEN 0 ELSE ItemsUpTo(s, k - 1) + s[k].n
TotalAvailable(s) == ItemsUpTo(s, Len(s))

\* the script's pages end with a page carrying no continuation token
ClientEnds(s) == s[Len(s)].kind = "ok" /\ s[Len(s)].token = None

RECURSIVE ServedUpTo(_, _)
\* the records of pages 1..k of script s, page after page, each in its own order
ServedUpTo(s, k) ==
    IF k = 0 THEN <<>>
    ELSE ServedUpTo(s, k - 1)
         \o [i \in 1..Len(Items(s, k)) |-> Normalize(Items(s, k)[i])]

\* the first n elements of a sequence (all of it when it is shorter)
FirstN(seq, n) == [i \in 1..Min(n, Len(seq)) |-> seq[i]]

\* the aggregation has ended
Ended == pc \in {"done", "failed"}
\* a page fetch has failed: the page that answered the last request is an error
FetchFailed ==
    Fetches >= 1 /\ ClientPage(script, Fetches).kind = "error" /\ pc # "execute"

----------------------------------------------------------------------------
(* C1: for a cap C >= 1 and a client whose pages end with a page carrying  *)
(* no continuation token, a successful aggregation returns exactly         *)
(* min(C, number of items on all the client's pages) records, never more   *)
(* than C.                                                                 *)
C1_LengthIsMinOfCapAndAvailable ==
    (pc = "done" /\ max_results >= 1 /\ ClientEnds(script)) =>
        /\ videos.kind = "list"
        /\ Len(videos.data) = Min(max_results, TotalAvailable(script))
        /\ Len(videos.data) <= max_results

\* a success whose accumulated records overshot the cap and were cut to it
C1_Witness ==
    /\ pc = "done" /\ max_results >= 1 /\ ClientEnds(script)
    /\ Len(video_data) > max_results
    /\ Len(videos.data) = max_results

(* C2: every page request asks for at most 50 items and at most the cap    *)
(* minus the number of records accumulated when it is issued.              *)
C2_PageSizeWithinLimits ==
    /\ pc = "execute" =>
        /\ results_per_page <= PlatformMax
        /\ results_per_page <= max_results - Len(video_data)
    /\ \A i \in 1..Len(requests) :
        requests[i].maxResults <= PlatformMax /\ requests[i].maxResults <= max_results

\* a second request, for the remainder below the platform limit
C2_Witness ==
    /\ pc = "execute"
    /\ Len(video_data) > 0
    /\ results_per_page = max_results - Len(video_data)
    /\ results_per_page < PlatformMax

(* C3: once a page fetch has failed, on the first page or on a later one,  *)
(* the caller gets a failure and no record: nothing accumulated from the   *)
(* earlier pages is returned or stored for display.                        *)
C3_FailureCarriesNoRecords ==
    FetchFailed =>
        /\ pc = "failed"
        /\ videos.kind = "None"
        /\ videos.data = <<>>
        /\ search_results = <<>>

\* a failure on a later page, after records were accumulated, seen by the handler
C3_Witness ==
    FetchFailed /\ Fetches >= 2 /\ Len(video_data) > 0 /\ via = "ui" /\ pc = "failed"

(* C4: a client that answers every fetch with zero items and a             *)
(* continuation token makes the aggregation end as a failure (a            *)
(* ProtocolAnomaly); the aggregation does not fetch forever.               *)
EmptyForever(s) == Len(s) = 1 /\ s[1] = OkPage(0, TokenAt(1))
C4_EmptyForeverFails ==
    (EmptyForever(script) /\ pc = "execute")
        ~> (pc = "failed" /\ st_message = "error: ProtocolAnomaly")

(* C5: the records returned on success are the records of the fetched      *)
(* pages, in fetch order and in each page's order, cut to the first C:     *)
(* nothing is reordered, dropped before the cut, or duplicated.            *)
C5_OutputIsServedPrefix ==
    pc = "done" =>
        /\ videos.kind = "list"
        /\ videos.data = FirstN(ServedUpTo(script, Min(Fetches, Len(script))), max_results)

\* two pages with items were fetched and the second one was cut
C5_Witness ==
    /\ pc = "done"
    /\ Fetches = 2
    /\ script[1].n >= 1
    /\ Len(video_data) > max_results
    /\ Len(videos.data) > script[1].n

(* C6: Done and Failed are the only states an aggregation ends in, and    *)
(* they are absorbing: after a page fetch has failed no further request is *)
(* issued (no retry), and after Done no further request is issued.         *)
Started == pc \notin {"idle", "rejected"}
C6_TerminalStatesAbsorbing ==
    /\ [](Started => (Ended <=> ~ENABLED Next))
    /\ [][FetchFailed => (FetchFailed' /\ pc' = pc /\ requests' = requests)]_vars
    /\ [][Ended => (pc' = pc /\ requests' = requests /\ videos' = videos)]_vars

\* the first page fetch failed: one request, and the aggregation is over
C6_Witness ==
    FetchFailed /\ Fetches = 1 /\ pc = "failed" /\ ~ENABLED Next

(* C7: a call with cap 0 is rejected as a ValidationError before any page  *)
(* fetch: it ends as a failure, not as an empty success.                   *)
C7_ZeroCapRejected ==
    (Started /\ max_results = 0 /\ Ended) =>
        /\ pc = "failed"
        /\ videos.kind = "None"
        /\ requests = <<>>

(* C8: a fetched page with an item that lacks a required field ends the    *)
(* aggregation in a classified failure (MalformedResponse) with no         *)
(* records: the failure value is returned, no exception escapes.           *)
C8_MalformedItemClassified ==
    (Ended /\ Fetches >= 1 /\ ClientPage(script, Fetches).bad # 0) =>
        /\ pc = "failed"
        /\ videos.kind = "None"
        /\ videos.data = <<>>

(* C9: after a successful page the loop stops only if the page carries no  *)
(* continuation token or the cap is reached; a page with zero items and a  *)
(* token does not stop it, and the next page is then requested.            *)
C9_LoopStopsOnlyOnTokenOrCap ==
    /\ [][(pc = "normalize" /\ pc' = "return") =>
            (Falsy(response.token) \/ Len(video_data') >= max_results)]_vars
    /\ [][(pc = "normalize" /\ response.n = 0 /\ ~Falsy(response.token)
           /\ Len(video_data) < max_results) => pc' = "loop"]_vars
    /\ [][(pc = "loop" /\ ~Falsy(next_page_token) /\ Len(video_data) < max_results) =>
            (pc' = "execute"
             /\ Len(requests) < MaxLog =>
                    (Len(requests') = Len(requests) + 1
                     /\ requests'[Len(requests')].pageToken = next_page_token))]_vars

\* the first page had a token and no item, and the second page is being fetched
C9_Witness ==
    /\ pc = "execute"
    /\ Fetches = 2
    /\ script[1].n = 0
    /\ video_data = <<>>
    /\ requests[2].pageToken = script[1].token

(* C10: when the first page has zero items and no continuation token, the  *)
(* aggregation ends as a success with an empty sequence after exactly one  *)
(* page fetch, never as a failure.                                         *)
FirstPageEmptyAndLast(s) == s[1] = OkPage(0, None)
C10_EmptyFirstPageIsSuccess ==
    (FirstPageEmptyAndLast(script) /\ Fetches >= 1) =>
        /\ Fetches = 1
        /\ pc \in {"execute", "normalize", "return", "done"}
        /\ pc = "done" => (videos = ListResult(<<>>) /\ search_results = <<>>)

\* the handler was told there is nothing to show
C10_Witness ==
    /\ FirstPageEmptyAndLast(script)
    /\ pc = "done"
    /\ Fetches = 1
    /\ videos = ListResult(<<>>)
    /\ st_message = "info: no videos found"

----------------------------------------------------------------------------
\* number of pages of PlatformMax items needed for c items
PagesFor(c) == (c + PlatformMax - 1) \div PlatformMax
\* the size the j-th of the PagesFor(c) requests should have
ExpectedSize(c, j) ==
    IF j < PagesFor(c) \/ c % PlatformMax = 0 THEN PlatformMax ELSE c % PlatformMax
\* the client answers each of the PagesFor(c) requests with a page of the
\* size asked for, and every page before the last of them carries a token
FullPages(s, c) ==
    /\ PagesFor(c) <= Len(s)
    /\ \A j \in 1..PagesFor(c) :
        s[j].kind = "ok" /\ s[j].bad = 0 /\ s[j].n = ExpectedSize(c, j)

(* C11: when the cap C is not a multiple of 50 and the client answers with *)
(* full pages, exactly ceil(C/50) requests are issued, each for 50 items   *)
(* except the last, which asks for C mod 50; C records are returned.       *)
C11_RemainderPage ==
    (Started /\ max_results >= 1 /\ max_results % PlatformMax # 0
     /\ FullPages(script, max_results)) =>
        /\ Fetches <= PagesFor(max_results)
        /\ \A j \in 1..Fetches : requests[j].maxResults = ExpectedSize(max_results, j)
        /\ Ended => (pc = "done" /\ Fetches = PagesFor(max_results)
                     /\ Len(videos.data) = max_results)

\* a full page of 50 and then the remainder page
C11_Witness ==
    /\ pc = "done"
    /\ max_results % PlatformMax # 0
    /\ FullPages(script, max_results)
    /\ Fetches = 2
    /\ requests[1].maxResults = PlatformMax
    /\ requests[2].maxResults = max_results - PlatformMax

(* C12 as claimed: when the cap C is a multiple of 50, every request asks  *)
(* for exactly 50 items.                                                   *)
C12_EveryRequestIsFull ==
    (pc = "execute" /\ max_results % PlatformMax = 0) => results_per_page = PlatformMax

\* every page answered before the current request held exactly PlatformMax items
AllFullSoFar ==
    \A j \in 1..(Fetches - 1) :
        ClientPage(script, j).kind = "ok" /\ ClientPage(script, j).n = PlatformMax

(* C12 as amended: when the cap C is a multiple of 50 and every page       *)
(* fetched so far held exactly 50 items, the request asks for exactly 50.  *)
C12_RequestIsFullAfterFullPages ==
    (pc = "execute" /\ max_results % PlatformMax = 0 /\ AllFullSoFar) =>
        /\ results_per_page = PlatformMax
        /\ requests[Fetches].maxResults = PlatformMax

\* the second request of a cap of 100, after a full first page
C12_Witness ==
    /\ pc = "execute"
    /\ max_results % PlatformMax = 0
    /\ Fetches = 2
    /\ AllFullSoFar
    /\ results_per_page = PlatformMax

(* C13 as claimed: with cap 1 a single page is requested, with size 1.     *)
C13_SinglePageOfOne ==
    (Started /\ max_results = 1) =>
        /\ Fetches <= 1
        /\ \A j \in 1..Fetches : requests[j].maxResults = 1

(* C13 as amended: with cap 1 every request asks for 1 item, and a further *)
(* page is requested only after a page with zero items and a continuation  *)
(* token.                                                                  *)
C13_PagesOfOne ==
    (Started /\ max_results = 1) =>
        /\ \A j \in 1..Fetches : requests[j].maxResults = 1
        /\ pc = "execute" => results_per_page = 1
        /\ \A j \in 2..Fetches :
            LET p == ClientPage(script, j - 1) IN
                p.kind = "ok" /\ p.n = 0 /\ ~Falsy(p.token)
        /\ (script[1].n >= 1 \/ Falsy(script[1].token)) => Fetches <= 1

\* cap 1, a first page with an item and a token: one request, and done
C13_Witness ==
    /\ pc = "done"
    /\ max_results = 1
    /\ script[1].n >= 1
    /\ ~Falsy(script[1].token)
    /\ Fetches = 1
    /\ requests[1].maxResults = 1

(* C14: a search submitted with start_date after end_date is answered    *)
(* with the date error and nothing else: no call of search_youtube_api,    *)
(* no page request; every call the handler makes has start <= end.         *)
C14_InvertedDatesRejected ==
    /\ st_message = "error: start date after end date" =>
        (pc = "rejected" /\ requests = <<>> /\ videos = Pending /\ via = "none")
    /\ via = "ui" => (start_time[1] <= end_time[1])
    /\ pc = "rejected" => (requests = <<>> /\ ~ENABLED Next)

\* the date error is on display and nothing was requested
C14_Witness ==
    /\ pc = "rejected"
    /\ st_message = "error: start date after end date"
    /\ requests = <<>>

(* C15: against a deterministic client, a second call with the same query *)
(* issues the same requests and ends with the same output as the first:    *)
(* nothing of the first call carries over into the second.                 *)
C15_SameQuerySameOutcome ==
    (prev.set /\ pc # "again") =>
        /\ Len(requests) <= Len(prev.requests)
        /\ \A j \in 1..Len(requests) : requests[j] = prev.requests[j]
        /\ pc \in {"done", "failed"} =>
            /\ videos = prev.videos
            /\ requests = prev.requests
            /\ st_message = prev.st_message
            /\ search_results = prev.search_results

\* a second call that fetched two pages and returned records, as the first did
C15_Witness ==
    /\ prev.set
    /\ pc = "done"
    /\ Fetches = 2
    /\ Len(videos.data) >= 1
    /\ videos = prev.videos

(* C16: page fetches are sequential and the cursor is threaded: the first *)
(* request carries no continuation token, every later request carries the  *)
(* token of the response just before it, and a request is issued only when *)
(* the response before it has been normalized to its last item.            *)
C16_CursorThreaded ==
    /\ Len(requests) >= 1 => requests[1].pageToken = None
    /\ \A j \in 2..Len(requests) :
        requests[j].pageToken = ClientPage(script, j - 1).token
    /\ (pc = "execute" /\ Fetches < MaxLog) =>
        /\ Len(video_data) = ItemsUpTo(script, Min(Fetches - 1, Len(script)))
        /\ Fetches >= 2 => (response = ClientPage(script, Fetches - 1)
                            /\ next_page_token = response.token)

\* a third request, carrying the second page's token, not the first's
C16_Witness ==
    /\ pc = "execute"
    /\ Fetches = 3
    /\ requests[2].pageToken = TokenAt(1)
    /\ requests[3].pageToken = TokenAt(2)
    /\ Len(video_data) >= 2

\* every response of the client that carries a continuation token also
\* carries at least one item
WellBehaved(s) ==
    \A j \in 1..(Len(s) + 1) :
        (ClientPage(s, j).kind = "ok" /\ ~Falsy(ClientPage(s, j).token))
            => ClientPage(s, j).n >= 1

(* C17: if every response with a continuation token has at least one      *)
(* item, then for every cap C >= 1 at most C pages are fetched: every      *)
(* return to the loop test has added a record for each page fetched, and   *)
(* the aggregation is never stuck short of Done or Failed.                 *)
C17_TerminatesWithinCapFetches ==
    (WellBehaved(script) /\ Started /\ max_results >= 1) =>
        /\ Fetches <= max_results
        /\ Fetches <= Len(video_data) + 1
        /\ pc = "loop" => Fetches <= Len(video_data)
        /\ Ended \/ ENABLED Next

\* two fetches of a well-behaved client, the first page short of the cap
C17_Witness ==
    /\ WellBehaved(script)
    /\ pc = "done"
    /\ Fetches = 2
    /\ script[1].n = 1
    /\ max_results >= 2

\* every page answered so far held at most as many items as its request asked for
Obedient ==
    \A j \in 1..Min(Fetches, Len(script)) :
        ClientPage(script, j).kind = "ok" =>
            ClientPage(script, j).n <= requests[j].maxResults

(* C18: if every response holds at most as many items as its request asked *)
(* for, the number of accumulated records never exceeds C and the final    *)
(* cut removes nothing; more than C records are accumulated only after a   *)
(* response with more items than requested.                                *)
C18_NoOvershootWhenObedient ==
    (Started /\ Obedient) =>
        /\ Len(video_data) <= max_results
        /\ pc = "done" => videos.data = video_data

\* the cap reached exactly by a second page that held what was asked for
C18_Witness ==
    /\ Obedient
    /\ pc = "done"
    /\ Fetches = 2
    /\ script[2].n = requests[2].maxResults
    /\ Len(video_data) = max_results
    /\ videos.data = video_data

(* C19: every page request asks for at least one item, whatever the cap    *)
(* and whatever the client answers.                                        *)
C19_PageSizeAtLeastOne ==
    /\ pc = "execute" => results_per_page >= 1
    /\ \A j \in 1..Len(requests) : requests[j].maxResults >= 1

\* a request for the last missing item
C19_Witness ==
    /\ pc = "execute"
    /\ results_per_page = 1
    /\ Len(video_data) = max_results - 1
    /\ Fetches >= 2

(* C20: a response whose continuation token is the empty text ends the    *)
(* loop like a response without a token: no further page is requested,     *)
(* even with fewer than C records, and what was fetched is returned.       *)
EmptyTokenAnswered ==
    /\ Fetches >= 1
    /\ pc \notin {"execute", "normalize"}
    /\ ClientPage(script, Fetches).kind = "ok"
    /\ ClientPage(script, Fetches).bad = 0
    /\ ClientPage(script, Fetches).token = ""
C20_EmptyTokenEndsLoop ==
    EmptyTokenAnswered =>
        /\ pc \in {"return", "done"}
        /\ Fetches = Len(script)
        /\ next_page_token = ""
        /\ pc = "done" =>
            videos = ListResult(FirstN(ServedUpTo(script, Len(script)), max_results))

\* an empty token on the first page, fewer records than the cap, and done
C20_Witness ==
    /\ EmptyTokenAnswered
    /\ pc = "done"
    /\ Fetches = 1
    /\ Len(video_data) < max_results
    /\ videos.data = video_data

====
